---- MODULE Spec2Model ----
(***************************************************************************)
(* LS-8 style virtual machine of src/ls8/cpu.py: a 256-cell memory, eight  *)
(* registers (register 7 is the stack pointer), three flags, and the       *)
(* fetch-decode-execute loop of CPU.run.                                    *)
(*                                                                         *)
(* Python behaviour that the model keeps:                                  *)
(*   - integers are unbounded; only ram_write masks with 0xFF;             *)
(*   - a list index i of a list of length n is valid for -n <= i < n, a    *)
(*     negative index counting from the end; any other index raises        *)
(*     IndexError;                                                         *)
(*   - ram_read and ram_write catch IndexError; run() catches KeyError     *)
(*     only, so an IndexError raised by a register access ends run().      *)
(***************************************************************************)
EXTENDS Integers, Sequences, FiniteSets, TLC

VARIABLES
    ram,      \* self._ram : 256 cells
    reg,      \* self._reg : 8 cells
    pc,       \* self._pc
    ir,       \* self._ir
    running,  \* self._running
    fl,       \* self._fl : [L, G, E]
    output,   \* what has been printed: PRN values, diagnostics, trace lines, in order
    status,   \* where the client is: constructed, loaded, running, halted, crashed
    cycles,   \* iterations of the while loop of run() started so far
    hist,     \* machine states at the start of the latest cycles or calls, newest first
    call      \* the latest call of the memory access surface and what it returned

vars == <<ram, reg, pc, ir, running, fl, output, status, cycles, hist, call>>

(***************************************************************************)
(* Bounds of the model.                                                    *)
(***************************************************************************)
\* cycles of run() that are explored
MaxCycles == 9
\* calls of ram_read / ram_write explored by SpecMem
MaxCalls == 2
\* snapshots kept in hist
HistDepth == 2

(***************************************************************************)
(* Sizes set by the constructor.                                           *)
(***************************************************************************)
RamSize == 256
RegCount == 8
SP == 7
InitialSP == 244

(***************************************************************************)
(* Python list indexing.                                                   *)
(***************************************************************************)
IndexOK(i, n) == (-n <= i) /\ (i < n)
Index(i, n) == IF i < 0 THEN i + n ELSE i

(***************************************************************************)
(* Printed lines.                                                          *)
(***************************************************************************)
Line(kind, val) == [kind |-> kind, val |-> val]

(***************************************************************************)
(* The machine as a record: the fields of the CPU object, what it has      *)
(* printed (out) and the exception that is propagating, if any (exc).      *)
(***************************************************************************)
Machine ==
    [ram |-> ram, reg |-> reg, pc |-> pc, ir |-> ir, running |-> running,
     fl |-> fl, out |-> output, exc |-> "none"]

Raise(m, e) == [m EXCEPT !.exc = e]

\* CPU.__init__
NewCPU ==
    [ram |-> [i \in 0..(RamSize - 1) |-> 0],
     reg |-> [i \in 0..(RegCount - 1) |-> IF i = SP THEN InitialSP ELSE 0],
     pc |-> 0, ir |-> 0, running |-> FALSE,
     fl |-> [L |-> 0, G |-> 0, E |-> 0],
     out |-> <<>>, exc |-> "none"]

(***************************************************************************)
(* ram_read: the value returned, and the machine after the call (the       *)
(* diagnostic is printed when the index is out of range).                  *)
(***************************************************************************)
ram_read(m, mar) ==
    IF IndexOK(mar, RamSize) THEN m.ram[Index(mar, RamSize)] ELSE -1

ram_read_m(m, mar) ==
    IF IndexOK(mar, RamSize) THEN m
    ELSE [m EXCEPT !.out = Append(@, Line("read_out_of_bounds", mar))]

(***************************************************************************)
(* ram_write: the machine after the call, and the value returned (None is  *)
(* [none |-> TRUE], the sentinel is [none |-> FALSE, val |-> -1]).         *)
(***************************************************************************)
\* ram_write without the & 0xFF
ram_write_unmasked(m, mar, mdr) ==
    IF IndexOK(mar, RamSize)
    THEN [m EXCEPT !.ram[Index(mar, RamSize)] = mdr]
    ELSE [m EXCEPT !.out = Append(@, Line("write_out_of_bounds", mar))]

ram_write(m, mar, mdr) ==
    IF IndexOK(mar, RamSize)
    THEN [m EXCEPT !.ram[Index(mar, RamSize)] = mdr % 256]
    ELSE [m EXCEPT !.out = Append(@, Line("write_out_of_bounds", mar))]

None == [none |-> TRUE, val |-> 0]
Value(v) == [none |-> FALSE, val |-> v]

ram_write_ret(mar) ==
    IF IndexOK(mar, RamSize) THEN None ELSE Value(-1)

(***************************************************************************)
(* trace: "%02X" formatting (at least two characters, zero padded, a minus *)
(* sign counting as one), the three reads with their diagnostics, then the *)
(* one line: PC, the three values read, the eight registers.               *)
(***************************************************************************)
HexChars == <<"0", "1", "2", "3", "4", "5", "6", "7",
              "8", "9", "A", "B", "C", "D", "E", "F">>

RECURSIVE HexDigits(_)
HexDigits(n) ==
    IF n < 16 THEN <<HexChars[n + 1]>>
    ELSE HexDigits(n \div 16) \o <<HexChars[(n % 16) + 1]>>

Hex02(n) ==
    IF n < 0 THEN <<"-">> \o HexDigits(-n)
    ELSE IF n < 16 THEN <<"0">> \o HexDigits(n)
    ELSE HexDigits(n)

trace(m) ==
    LET m3 == ram_read_m(ram_read_m(ram_read_m(m, m.pc), m.pc + 1), m.pc + 2)
        text == <<Hex02(m.pc), Hex02(ram_read(m, m.pc)),
                  Hex02(ram_read(m, m.pc + 1)), Hex02(ram_read(m, m.pc + 2))>>
                \o [i \in 1..RegCount |-> Hex02(m.reg[i - 1])]
    IN  [m3 EXCEPT !.out = Append(@, [kind |-> "TRACE", val |-> m.pc, text |-> text])]

(***************************************************************************)
(* load: the parsed program is written from address 0 on, unmasked and     *)
(* not range-checked: the 257th byte raises IndexError.                    *)
(***************************************************************************)
load(m, program) ==
    LET n == IF Len(program) < RamSize THEN Len(program) ELSE RamSize
        m1 == [m EXCEPT !.ram = [i \in 0..(RamSize - 1) |->
                                    IF i < n THEN program[i + 1] ELSE m.ram[i]]]
    IN  IF Len(program) > RamSize THEN Raise(m1, "IndexError") ELSE m1

(***************************************************************************)
(* Decoder (run, lines 149-152).  >> is floor division, & 1 and & 0b111    *)
(* are remainders, also for the -1 that ram_read returns.                  *)
(***************************************************************************)
operand_count(i) == i \div 64
is_alu(i) == (i \div 32) % 2
sets_pc(i) == (i \div 16) % 2
command(i) == i % 8

(***************************************************************************)
(* ALU (alu.operate).                                                      *)
(***************************************************************************)
RegOK(a) == IndexOK(a, RegCount)
R(a) == Index(a, RegCount)

\* ADD that also sets the flags from its result, as a hardware ALU would
ADD_sets_flags(m, reg_a, reg_b) ==
    IF ~RegOK(reg_a) \/ ~RegOK(reg_b) THEN Raise(m, "IndexError")
    ELSE [m EXCEPT !.reg[R(reg_a)] = m.reg[R(reg_a)] + m.reg[R(reg_b)],
                   !.fl = [L |-> 0, G |-> 0, E |-> 1]]

ADD(m, reg_a, reg_b) ==
    IF ~RegOK(reg_a) \/ ~RegOK(reg_b) THEN Raise(m, "IndexError")
    ELSE [m EXCEPT !.reg[R(reg_a)] = m.reg[R(reg_a)] + m.reg[R(reg_b)]]

MUL(m, reg_a, reg_b) ==
    IF ~RegOK(reg_a) \/ ~RegOK(reg_b) THEN Raise(m, "IndexError")
    ELSE [m EXCEPT !.reg[R(reg_a)] = m.reg[R(reg_a)] * m.reg[R(reg_b)]]

CMP(m, reg_a, reg_b) ==
    IF ~RegOK(reg_a) \/ ~RegOK(reg_b) THEN Raise(m, "IndexError")
    ELSE IF m.reg[R(reg_a)] = m.reg[R(reg_b)]
         THEN [m EXCEPT !.fl = [L |-> 0, G |-> 0, E |-> 1]]
         ELSE IF m.reg[R(reg_a)] < m.reg[R(reg_b)]
              THEN [m EXCEPT !.fl = [L |-> 1, G |-> 0, E |-> 0]]
              ELSE [m EXCEPT !.fl = [L |-> 0, G |-> 1, E |-> 0]]

alu(m, op, reg_a, reg_b) ==
    CASE op = "ADD" -> ADD(m, reg_a, reg_b)
      [] op = "MUL" -> MUL(m, reg_a, reg_b)
      [] op = "CMP" -> CMP(m, reg_a, reg_b)
      [] OTHER -> Raise(m, "Unsupported ALU operation")

(***************************************************************************)
(* Core control handlers (run, lines 154-169).                             *)
(***************************************************************************)
\* HLT that forgets to clear Running
HLT_keeps_running(m) == m

HLT(m) == [m EXCEPT !.running = FALSE]

LDI(m, operand_a, operand_b) ==
    IF ~RegOK(operand_a) THEN Raise(m, "IndexError")
    ELSE [m EXCEPT !.reg[R(operand_a)] = operand_b]

\* PRN with the register file left out: the operand byte itself is printed
PRN_operand(m, operand_a) ==
    IF ~RegOK(operand_a) THEN Raise(m, "IndexError")
    ELSE [m EXCEPT !.out = Append(@, Line("PRN", operand_a))]

PRN(m, operand_a) ==
    IF ~RegOK(operand_a) THEN Raise(m, "IndexError")
    ELSE [m EXCEPT !.out = Append(@, Line("PRN", m.reg[R(operand_a)]))]

PUSH(m, operand_a) ==
    LET m1 == [m EXCEPT !.reg[SP] = @ - 1]
    IN  IF ~RegOK(operand_a) THEN Raise(m1, "IndexError")
        ELSE ram_write(m1, m1.reg[SP], m1.reg[R(operand_a)])

\* POP that clears the cell it has read
POP_zeroes(m, operand_a) ==
    LET v == ram_read(m, m.reg[SP])
        m1 == ram_write(ram_read_m(m, m.reg[SP]), m.reg[SP], 0)
    IN  IF ~RegOK(operand_a) THEN Raise(m1, "IndexError")
        ELSE LET m2 == [m1 EXCEPT !.reg[R(operand_a)] = v]
             IN  [m2 EXCEPT !.reg[SP] = @ + 1]

POP(m, operand_a) ==
    LET v == ram_read(m, m.reg[SP])
        m1 == ram_read_m(m, m.reg[SP])
    IN  IF ~RegOK(operand_a) THEN Raise(m1, "IndexError")
        ELSE LET m2 == [m1 EXCEPT !.reg[R(operand_a)] = v]
             IN  [m2 EXCEPT !.reg[SP] = @ + 1]

(***************************************************************************)
(* Flow control handlers (run, lines 171-194).                             *)
(***************************************************************************)
CALL(m, operand_a) ==
    LET m1 == [m EXCEPT !.reg[SP] = @ - 1]
        m2 == ram_write(m1, m1.reg[SP], m1.pc + 2)
    IN  IF ~RegOK(operand_a) THEN Raise(m2, "IndexError")
        ELSE [m2 EXCEPT !.pc = m2.reg[R(operand_a)]]

RET(m) ==
    LET v == ram_read(m, m.reg[SP])
        m1 == ram_read_m(m, m.reg[SP])
        m2 == [m1 EXCEPT !.pc = v]
    IN  [m2 EXCEPT !.reg[SP] = @ + 1]

JMP(m, operand_a) ==
    LET m1 == [m EXCEPT !.reg[SP] = @ - 1]
    IN  IF ~RegOK(operand_a) THEN Raise(m1, "IndexError")
        ELSE [m1 EXCEPT !.pc = m1.reg[R(operand_a)]]

JEQ(m, operand_a, count) ==
    IF m.fl.E # 0 THEN JMP(m, operand_a)
    ELSE [m EXCEPT !.pc = @ + 1 + count]

JNE(m, operand_a, count) ==
    IF m.fl.E = 0 THEN JMP(m, operand_a)
    ELSE [m EXCEPT !.pc = @ + 1 + count]

(***************************************************************************)
(* One iteration of the while loop of run (lines 145-232).                 *)
(***************************************************************************)
\* lines 145-147: three reads, each printing a diagnostic when out of range
fetch(m) ==
    LET m1 == [ram_read_m(m, m.pc) EXCEPT !.ir = ram_read(m, m.pc)]
        m2 == ram_read_m(m1, m.pc + 1)
    IN  ram_read_m(m2, m.pc + 2)

operand_a(m) == ram_read(m, m.pc + 1)
operand_b(m) == ram_read(m, m.pc + 2)

\* a lookup miss treated as fatal to the loop
KeyError_stops(m, table, c) ==
    [m EXCEPT !.out = Append(@, Line(table, c)), !.running = FALSE]

KeyError(m, table, c) == [m EXCEPT !.out = Append(@, Line(table, c))]

\* lines 196-201 and 226-229
dispatch(m, a, b) ==
    LET c == command(m.ir)
    IN  CASE c = 1 -> HLT(m)
          [] c = 2 -> LDI(m, a, b)
          [] c = 7 -> PRN(m, a)
          [] c = 5 -> PUSH(m, a)
          [] c = 6 -> POP(m, a)
          [] OTHER -> KeyError(m, "command_not_found", c)

\* lines 203-206 and 221-224
alu_dispatch(m, a, b) ==
    LET c == command(m.ir)
    IN  CASE c = 0 -> alu(m, "ADD", a, b)
          [] c = 2 -> alu(m, "MUL", a, b)
          [] c = 7 -> alu(m, "CMP", a, b)
          [] OTHER -> KeyError(m, "alu_command_not_found", c)

\* lines 208-213 and 216-219
pc_dispatch(m, a) ==
    LET c == command(m.ir)
    IN  CASE c = 0 -> CALL(m, a)
          [] c = 1 -> RET(m)
          [] c = 4 -> JMP(m, a)
          [] c = 5 -> JEQ(m, a, operand_count(m.ir))
          [] c = 6 -> JNE(m, a, operand_count(m.ir))
          [] OTHER -> KeyError(m, "pc_command_not_found", c)

\* the loop advancing PC after every unit, the flow unit included
advance_always(m) ==
    IF m.exc = "none"
    THEN [m EXCEPT !.pc = @ + 1 + operand_count(m.ir)]
    ELSE m

\* lines 231-232; skipped when an exception is propagating
advance(m) ==
    IF m.exc = "none" /\ sets_pc(m.ir) = 0
    THEN [m EXCEPT !.pc = @ + 1 + operand_count(m.ir)]
    ELSE m

\* lines 215-229
execute(m, a, b) ==
    IF sets_pc(m.ir) # 0 THEN pc_dispatch(m, a)
    ELSE IF is_alu(m.ir) # 0 THEN alu_dispatch(m, a, b)
    ELSE dispatch(m, a, b)

cycle(m) == advance(execute(fetch(m), operand_a(m), operand_b(m)))

(***************************************************************************)
(* Program images given to load.  Opcode is the inverse of the decoder.    *)
(***************************************************************************)
Opcode(count, alu_bit, pc_bit, cmd) == count * 64 + alu_bit * 32 + pc_bit * 16 + cmd

iHLT == <<Opcode(0, 0, 0, 1)>>
iLDI(r, v) == <<Opcode(2, 0, 0, 2), r, v>>
iPRN(r) == <<Opcode(1, 0, 0, 7), r>>
iPUSH(r) == <<Opcode(1, 0, 0, 5), r>>
iPOP(r) == <<Opcode(1, 0, 0, 6), r>>
iADD(a, b) == <<Opcode(2, 1, 0, 0), a, b>>
iMUL(a, b) == <<Opcode(2, 1, 0, 2), a, b>>
iCMP(a, b) == <<Opcode(2, 1, 0, 7), a, b>>
iCALL(r) == <<Opcode(1, 0, 1, 0), r>>
iRET == <<Opcode(0, 0, 1, 1)>>
iJMP(r) == <<Opcode(1, 0, 1, 4), r>>
iJEQ(r) == <<Opcode(1, 0, 1, 5), r>>
iJNE(r) == <<Opcode(1, 0, 1, 6), r>>

\* an image of len bytes: fill everywhere, then each segment <<address, bytes>>
\* laid over it, later segments over earlier ones
Image(fill, len, segs) ==
    [i \in 1..len |->
        LET hits == {k \in 1..Len(segs) :
                        (segs[k][1] <= i - 1) /\ (i - 1 < segs[k][1] + Len(segs[k][2]))}
        IN  IF hits = {} THEN fill
            ELSE LET k == CHOOSE k \in hits : \A j \in hits : j <= k
                 IN  segs[k][2][i - segs[k][1]]]

Regs == 0..(RegCount - 1)
Vals == {0, 100, 200, 255}
StackTops == {0, 1, InitialSP, 255}
Places == {100, 253, 254, 255}
BadRegs == {8, 255}

\* the scenario image of the specification: LDI R0,8; PRN R0; HLT
ScenarioImage == iLDI(0, 8) \o iPRN(0) \o iHLT

ProgALU ==
    { iLDI(a, x) \o iLDI(b, y) \o <<Opcode(2, 1, 0, k), a, b>> \o iCMP(a, b) \o iHLT :
        a \in Regs, b \in Regs, x \in Vals, y \in Vals, k \in {0, 2, 7} }

\* PUSH r then POP s, with the stack pointer set to sp and reg[r] to x first
ProgStack ==
    { iLDI(SP, sp) \o iLDI(r, x) \o iPUSH(r) \o iPOP(s) \o iHLT :
        sp \in StackTops, r \in Regs, s \in Regs, x \in Vals }

\* the same with a register value produced by ADD, and with the stack pointer
\* moved past the top of memory by two POPs
ProgStackFar ==
    { iLDI(r, x) \o iADD(r, r) \o iPUSH(r) \o iPOP(s) \o iHLT :
        r \in Regs, s \in Regs, x \in Vals }
    \cup
    { iLDI(SP, 255) \o iPOP(0) \o iPOP(0) \o iLDI(r, x) \o body \o iHLT :
        r \in {1, 2}, x \in Vals,
        body \in {iPUSH(1) \o iPOP(3), iCALL(2), iJMP(0), iRET} }

\* CALL t at address p with RET at address q, reached by a jump when p is far
ProgCall ==
    { Image(iHLT[1], RamSize, << <<0, iLDI(t, q) \o iCALL(t)>>, <<q, iRET>> >>) :
        t \in Regs, q \in {10, 200} }
    \cup
    { Image(iHLT[1], RamSize,
            << <<0, iLDI(1, 10) \o iLDI(0, p) \o iJMP(0)>>, <<10, iRET>>, <<p, iCALL(1)>> >>) :
        p \in Places }
    \cup
    { Image(iHLT[1], RamSize,
            << <<0, iLDI(SP, 255) \o iPOP(0) \o iPOP(0) \o iLDI(t, 40) \o iCALL(t)>>,
               <<40, iRET>> >>) :
        t \in {1, 2} }

\* CMP then a jump through register t; the jump opcode also with other
\* operand-count bits
ProgJump ==
    { Image(iHLT[1], RamSize,
            << <<0, iLDI(0, x) \o iLDI(1, y) \o iCMP(0, 1) \o iLDI(t, 40)
                    \o <<Opcode(n, 0, 1, k), t>> \o iPRN(0)>> >>) :
        x \in {0, 100}, y \in {0, 100}, t \in Regs, n \in 0..3, k \in {4, 5, 6} }

\* one instruction placed at address p, reached by a jump
ProgPlaced ==
    { Image(fill, RamSize, << <<0, iLDI(0, p) \o iJMP(0)>>, <<p, ins>> >>) :
        fill \in {0, iHLT[1]}, p \in Places,
        ins \in {iLDI(r, v) : r \in Regs, v \in Vals}
                \cup {iPRN(7), iPUSH(0), iPOP(1), iADD(0, 7), iCALL(0), iJMP(7), iRET} }

\* register operands that are no register, opcodes that no table holds,
\* the empty image and an image one byte too long
ProgErr ==
    { ins \o iPRN(0) \o iHLT :
        ins \in UNION { {iLDI(r, 1), iPRN(r), iPUSH(r), iPOP(r), iADD(r, 0), iADD(0, r),
                         iMUL(r, 0), iCMP(0, r), iCALL(r), iJMP(r), iJEQ(r), iJNE(r)} :
                        r \in BadRegs } }
    \cup
    { Image(iHLT[1], 16, << <<0, <<Opcode(n, a, p, k)>> >> >>) :
        n \in 0..3, a \in {0, 1}, p \in {0, 1}, k \in 0..7 }
    \cup
    { <<>>, Image(0, RamSize + 1, <<>>) }

Programs ==
    {ScenarioImage} \cup ProgALU \cup ProgStack \cup ProgStackFar \cup ProgCall
    \cup ProgJump \cup ProgPlaced \cup ProgErr

\* addresses and bytes given to ram_read and ram_write by SpecMem
ProbeAddrs == {-RamSize - 1, -RamSize, -1, 0, 1, RamSize - 1, RamSize, RamSize + 1}
ProbeBytes == {-1, 0, 7, 255, 256, 300}
\* values given to the pc setter by SpecMem
ProbePCs == {-1, 0, RamSize - 2, RamSize - 1, RamSize}
\* values given to the ir and fl setters by SpecMem
ProbeIRs == {-1, 0, 99}
ProbeFlags == {[L |-> 0, G |-> 0, E |-> 0], [L |-> 0, G |-> 0, E |-> 1],
               [L |-> 1, G |-> 1, E |-> 1]}

(***************************************************************************)
(* The state machine.                                                      *)
(***************************************************************************)
NoCall == [n |-> 0, op |-> "none", mar |-> 0, mdr |-> 0, ret |-> None]

Becomes(m) ==
    /\ ram' = m.ram
    /\ reg' = m.reg
    /\ pc' = m.pc
    /\ ir' = m.ir
    /\ running' = m.running
    /\ fl' = m.fl
    /\ output' = m.out

Remember ==
    LET h == <<Machine>> \o hist
    IN  hist' = IF Len(h) > HistDepth THEN SubSeq(h, 1, HistDepth) ELSE h

\* CPU(): the state after construction
Init ==
    /\ ram = NewCPU.ram
    /\ reg = NewCPU.reg
    /\ pc = NewCPU.pc
    /\ ir = NewCPU.ir
    /\ running = NewCPU.running
    /\ fl = NewCPU.fl
    /\ output = NewCPU.out
    /\ status = "constructed"
    /\ cycles = 0
    /\ hist = <<>>
    /\ call = NoCall

\* cpu.load(file) with a file that holds the image program
Load(program) ==
    /\ status = "constructed"
    /\ LET m == load(Machine, program)
       IN  /\ Becomes(m)
           /\ status' = IF m.exc = "none" THEN "loaded" ELSE "crashed"
    /\ UNCHANGED <<cycles, hist, call>>

\* cpu.run(): line 143
RunEntry ==
    /\ status = "loaded"
    /\ running' = TRUE
    /\ status' = "running"
    /\ UNCHANGED <<ram, reg, pc, ir, fl, output, cycles, hist, call>>

\* one iteration of the loop, and the loop test that follows it
Step ==
    /\ status = "running"
    /\ running
    /\ cycles < MaxCycles
    /\ LET m == cycle(Machine)
       IN  /\ Becomes(m)
           /\ status' = IF m.exc # "none" THEN "crashed"
                        ELSE IF m.running THEN "running" ELSE "halted"
    /\ cycles' = cycles + 1
    /\ Remember
    /\ UNCHANGED call

FlowCycle == sets_pc(ram_read(Machine, pc)) # 0 /\ Step
AluCycle == sets_pc(ram_read(Machine, pc)) = 0 /\ is_alu(ram_read(Machine, pc)) # 0 /\ Step
CoreCycle == sets_pc(ram_read(Machine, pc)) = 0 /\ is_alu(ram_read(Machine, pc)) = 0 /\ Step

Cycle == FlowCycle \/ AluCycle \/ CoreCycle

\* cpu.trace() called by the client once run() has been aborted by an exception
TraceAfterAbort ==
    /\ status = "crashed"
    /\ call.n < MaxCalls
    /\ Becomes(trace(Machine))
    /\ call' = [NoCall EXCEPT !.n = call.n + 1, !.op = "trace"]
    /\ UNCHANGED <<status, cycles, hist>>

Next ==
    \/ \E program \in Programs : Load(program)
    \/ RunEntry
    \/ FlowCycle
    \/ AluCycle
    \/ CoreCycle
    \/ TraceAfterAbort

Spec == Init /\ [][Next]_vars

\* the while loop of run() keeps iterating while Running is true
FairSpec == Spec /\ WF_vars(Cycle)

(***************************************************************************)
(* The memory access surface called directly on a constructed machine.     *)
(***************************************************************************)
RamRead(mar) ==
    /\ status = "constructed"
    /\ call.n < MaxCalls
    /\ Becomes(ram_read_m(Machine, mar))
    /\ call' = [n |-> call.n + 1, op |-> "ram_read", mar |-> mar, mdr |-> 0,
                ret |-> Value(ram_read(Machine, mar))]
    /\ Remember
    /\ UNCHANGED <<status, cycles>>

RamWrite(mar, mdr) ==
    /\ status = "constructed"
    /\ call.n < MaxCalls
    /\ Becomes(ram_write(Machine, mar, mdr))
    /\ call' = [n |-> call.n + 1, op |-> "ram_write", mar |-> mar, mdr |-> mdr,
                ret |-> ram_write_ret(mar)]
    /\ Remember
    /\ UNCHANGED <<status, cycles>>

\* cpu.pc = value (the setter, lines 32-34)
SetPC(value) ==
    /\ status = "constructed"
    /\ call.n < MaxCalls
    /\ pc' = value
    /\ call' = [NoCall EXCEPT !.n = call.n + 1, !.op = "set_pc", !.mdr = value]
    /\ Remember
    /\ UNCHANGED <<ram, reg, ir, running, fl, output, status, cycles>>

\* cpu.running = value (the setter, lines 24-26)
SetRunning(value) ==
    /\ status = "constructed"
    /\ call.n < MaxCalls
    /\ running' = value
    /\ call' = [NoCall EXCEPT !.n = call.n + 1, !.op = "set_running"]
    /\ Remember
    /\ UNCHANGED <<ram, reg, pc, ir, fl, output, status, cycles>>

\* cpu.ir = value (the setter, lines 48-50)
SetIR(value) ==
    /\ status = "constructed"
    /\ call.n < MaxCalls
    /\ ir' = value
    /\ call' = [NoCall EXCEPT !.n = call.n + 1, !.op = "set_ir", !.mdr = value]
    /\ Remember
    /\ UNCHANGED <<ram, reg, pc, running, fl, output, status, cycles>>

\* cpu.fl = value (the setter, lines 56-58)
SetFL(value) ==
    /\ status = "constructed"
    /\ call.n < MaxCalls
    /\ fl' = value
    /\ call' = [NoCall EXCEPT !.n = call.n + 1, !.op = "set_fl"]
    /\ Remember
    /\ UNCHANGED <<ram, reg, pc, ir, running, output, status, cycles>>

\* cpu.trace()
Trace ==
    /\ status = "constructed"
    /\ call.n < MaxCalls
    /\ Becomes(trace(Machine))
    /\ call' = [NoCall EXCEPT !.n = call.n + 1, !.op = "trace"]
    /\ Remember
    /\ UNCHANGED <<status, cycles>>

NextMem ==
    \/ \E mar \in ProbeAddrs : RamRead(mar)
    \/ \E mar \in ProbeAddrs, mdr \in ProbeBytes : RamWrite(mar, mdr)
    \/ \E value \in ProbePCs : SetPC(value)
    \/ \E value \in BOOLEAN : SetRunning(value)
    \/ \E value \in ProbeIRs : SetIR(value)
    \/ \E value \in ProbeFlags : SetFL(value)
    \/ Trace

SpecMem == Init /\ [][NextMem]_vars

(***************************************************************************)
(* Reading the history: Before is the machine at the start of the latest   *)
(* cycle, Before2 at the start of the cycle before it.                     *)
(***************************************************************************)
Before == hist[1]
Before2 == hist[2]

OpcodeAt(m) == ram_read(m, m.pc)
IsCore(m, c) ==
    sets_pc(OpcodeAt(m)) = 0 /\ is_alu(OpcodeAt(m)) = 0 /\ command(OpcodeAt(m)) = c
IsAlu(m, c) ==
    sets_pc(OpcodeAt(m)) = 0 /\ is_alu(OpcodeAt(m)) # 0 /\ command(OpcodeAt(m)) = c
IsFlow(m, c) ==
    sets_pc(OpcodeAt(m)) # 0 /\ command(OpcodeAt(m)) = c

U8(x) == x % 256
Completed == status \in {"running", "halted"}

(***************************************************************************)
(* C1.  One ADD a,b cycle on registers a, b in 0..7 holding values in      *)
(* 0..255 leaves reg[a] = (old reg[a] + old reg[b]) mod 256, and one MUL   *)
(* a,b cycle leaves reg[a] = (old reg[a] * old reg[b]) mod 256.            *)
(* ADD and MUL store the unreduced sum and product.                        *)
(***************************************************************************)
C1_AluModulo256 ==
    (/\ cycles >= 1
     /\ Completed
     /\ IsAlu(Before, 0) \/ IsAlu(Before, 2)
     /\ operand_a(Before) \in Regs
     /\ operand_b(Before) \in Regs
     /\ Before.reg[operand_a(Before)] \in 0..255
     /\ Before.reg[operand_b(Before)] \in 0..255)
    => LET a == operand_a(Before)
           b == operand_b(Before)
       IN  /\ IsAlu(Before, 0) => reg[a] = (Before.reg[a] + Before.reg[b]) % 256
           /\ IsAlu(Before, 2) => reg[a] = (Before.reg[a] * Before.reg[b]) % 256

(***************************************************************************)
(* C2.  After a CMP a,b cycle exactly one flag is 1: E if reg[a] = reg[b], *)
(* L if reg[a] < reg[b] as unsigned 8-bit values, G otherwise.             *)
(* The registers hold unreduced integers (C1), which CMP compares as they  *)
(* are.                                                                    *)
(***************************************************************************)
C2_CmpUnsigned ==
    (/\ cycles >= 1
     /\ Completed
     /\ IsAlu(Before, 7)
     /\ operand_a(Before) \in Regs
     /\ operand_b(Before) \in Regs)
    => LET x == Before.reg[operand_a(Before)]
           y == Before.reg[operand_b(Before)]
       IN  fl = IF x = y THEN [L |-> 0, G |-> 0, E |-> 1]
                ELSE IF U8(x) < U8(y) THEN [L |-> 1, G |-> 0, E |-> 0]
                ELSE [L |-> 0, G |-> 1, E |-> 0]

(***************************************************************************)
(* C3.  Right after an LDI r,v cycle, fetched at any PC, with r in 0..7:   *)
(* reg[r] = v mod 256 and the flags are as before the cycle.  v is the     *)
(* immediate the cycle fetched at PC + 2.                                  *)
(***************************************************************************)
C3_LdiLoadsImmediate ==
    (/\ cycles >= 1
     /\ Completed
     /\ IsCore(Before, 2)
     /\ operand_a(Before) \in Regs)
    => /\ reg[operand_a(Before)] = U8(operand_b(Before))
       /\ fl = Before.fl

(***************************************************************************)
(* C4.  PUSH r and then, as the next cycle, POP s with s different from r  *)
(* and from 7 leaves reg[s] equal to the value reg[r] had before the PUSH  *)
(* and SP equal to its value before the PUSH.                              *)
(***************************************************************************)
C4_PushPopRoundTrip ==
    (/\ cycles >= 2
     /\ Completed
     /\ IsCore(Before2, 5)
     /\ IsCore(Before, 6)
     /\ operand_a(Before2) \in Regs
     /\ operand_a(Before) \in Regs \ {operand_a(Before2), SP})
    => /\ reg[operand_a(Before)] = Before2.reg[operand_a(Before2)]
       /\ reg[SP] = Before2.reg[SP]

(***************************************************************************)
(* C5.  A CALL cycle fetched at address p followed, as the next cycle, by  *)
(* a RET: after the RET the PC is p + 2 and SP is as before the CALL.      *)
(***************************************************************************)
C5_CallRetReturns ==
    (/\ cycles >= 2
     /\ Completed
     /\ IsFlow(Before2, 0)
     /\ IsFlow(Before, 1))
    => /\ pc = Before2.pc + 2
       /\ reg[SP] = Before2.reg[SP]

(***************************************************************************)
(* C6.  Conditional jumps through a register t in 0..7: with E = 1 a JEQ   *)
(* cycle sets PC to reg[t] and a JNE cycle sets PC to PC + 1 +             *)
(* operand_count; with E = 0 a JNE cycle sets PC to reg[t] and a JEQ cycle *)
(* sets PC to PC + 1 + operand_count.                                      *)
(***************************************************************************)
C6_ConditionalJumps ==
    (/\ cycles >= 1
     /\ Completed
     /\ IsFlow(Before, 5) \/ IsFlow(Before, 6)
     /\ operand_a(Before) \in Regs)
    => LET t == operand_a(Before)
           taken == IF IsFlow(Before, 5) THEN Before.fl.E = 1 ELSE Before.fl.E = 0
       IN  pc = IF taken THEN Before.reg[t]
                ELSE Before.pc + 1 + operand_count(OpcodeAt(Before))

(***************************************************************************)
(* C7.  From the initial machine with the scenario image loaded, run()     *)
(* reaches the halted state, having printed exactly the value 8, with      *)
(* PC = 6.                                                                 *)
(***************************************************************************)
ScenarioStarted ==
    /\ status = "running"
    /\ cycles = 0
    /\ ram = load(NewCPU, ScenarioImage).ram
    /\ reg = NewCPU.reg
    /\ pc = 0
    /\ output = <<>>

ScenarioHalted ==
    /\ status = "halted"
    /\ ~running
    /\ ram = load(NewCPU, ScenarioImage).ram
    /\ output = <<Line("PRN", 8)>>
    /\ pc = 6

C7_ScenarioHalts == ScenarioStarted ~> ScenarioHalted

(***************************************************************************)
(* C8.  For every address outside 0..255 ram_read returns the sentinel and *)
(* ram_write returns the sentinel and changes no cell; for every address   *)
(* in 0..255 ram_read returns that cell and ram_write changes exactly that *)
(* cell.  A negative address down to -256 is taken from the end of memory. *)
(***************************************************************************)
C8_RangeChecked ==
    /\ call.op = "ram_read" =>
          /\ call.mar \notin 0..(RamSize - 1) => call.ret = Value(-1)
          /\ call.mar \in 0..(RamSize - 1) => call.ret = Value(Before.ram[call.mar])
          /\ ram = Before.ram
    /\ call.op = "ram_write" =>
          /\ call.mar \notin 0..(RamSize - 1) => (call.ret = Value(-1) /\ ram = Before.ram)
          /\ call.mar \in 0..(RamSize - 1) =>
                \A i \in 0..(RamSize - 1) : i # call.mar => ram[i] = Before.ram[i]

(***************************************************************************)
(* C9.  Every cycle other than an explicit HLT and an unsupported ALU      *)
(* operation runs to completion without aborting run() and leaves Running  *)
(* true, also with an operand byte 8..255 used as a register index.        *)
(***************************************************************************)
UnsupportedAlu(m) ==
    sets_pc(OpcodeAt(m)) = 0 /\ is_alu(OpcodeAt(m)) # 0
    /\ command(OpcodeAt(m)) \notin {0, 2, 7}

C9_OnlyHltStops ==
    (/\ cycles >= 1
     /\ ~IsCore(Before, 1)
     /\ ~UnsupportedAlu(Before))
    => (status = "running" /\ running)

(***************************************************************************)
(* C10.  A cycle whose opcode has the ALU bit set, the sets-PC bit clear   *)
(* and a selector other than ADD, MUL, CMP is fatal to the run: the error  *)
(* is propagated and no further cycle executes.                            *)
(***************************************************************************)
C10_UnsupportedAluFatal ==
    (cycles >= 1 /\ UnsupportedAlu(Before)) => status = "crashed"

(***************************************************************************)
(* C11.  In every reachable state each of the 8 registers, the stack       *)
(* pointer included, holds an integer in 0..255.                           *)
(***************************************************************************)
C11_RegistersAreBytes == \A i \in Regs : reg[i] \in 0..255

(***************************************************************************)
(* C12.  run() entry sets Running true and changes nothing else; Running   *)
(* goes from true to false only in a cycle that executes HLT, which clears *)
(* it; once the machine has halted, PC, registers, memory, flags and       *)
(* output never change.                                                    *)
(***************************************************************************)
MachineUnchanged ==
    /\ ram' = ram
    /\ reg' = reg
    /\ pc' = pc
    /\ fl' = fl
    /\ output' = output

C12_RunningAndHalt ==
    [][ /\ (status = "loaded" /\ status' = "running") => (running' /\ MachineUnchanged)
        /\ (~running /\ running') => status = "loaded"
        /\ (running /\ ~running') => (status = "running" /\ IsCore(Machine, 1))
        /\ (status = "running" /\ cycles' = cycles + 1 /\ IsCore(Machine, 1))
              => (~running' /\ status' = "halted")
        /\ status = "halted" => (MachineUnchanged /\ ~running' /\ status' = "halted")
      ]_vars

C12_Halted ==
    /\ status = "halted"
    /\ ~running
    /\ cycles >= 2
    /\ IsCore(Before, 1)

(***************************************************************************)
(* C13.  A JMP t cycle, and a taken JEQ or JNE, sets PC to reg[t] and      *)
(* leaves every register, the stack pointer included, every memory cell    *)
(* and the flags unchanged.                                                *)
(***************************************************************************)
JumpTaken(m) ==
    \/ IsFlow(m, 4)
    \/ IsFlow(m, 5) /\ m.fl.E # 0
    \/ IsFlow(m, 6) /\ m.fl.E = 0

C13_JmpIsPure ==
    (/\ cycles >= 1
     /\ Completed
     /\ JumpTaken(Before)
     /\ operand_a(Before) \in Regs)
    => /\ pc = Before.reg[operand_a(Before)]
       /\ reg = Before.reg
       /\ ram = Before.ram
       /\ fl = Before.fl

(***************************************************************************)
(* C14.  Whenever PUSH, POP, CALL or RET reads or writes memory at SP, SP  *)
(* is an address in 0..255: a PUSH or CALL that takes SP below 0, and a    *)
(* POP or RET with SP past the end of memory, is reported as an error and  *)
(* reads or writes no memory cell.  StackAccesses holds the address the    *)
(* cycle passes to ram_write or ram_read: none when PUSH is given an       *)
(* operand that is no register, since indexing the register file raises    *)
(* before ram_write is called.                                             *)
(***************************************************************************)
StackAccesses(m) ==
    IF (IsCore(m, 5) /\ RegOK(operand_a(m))) \/ IsFlow(m, 0) THEN {m.reg[SP] - 1}
    ELSE IF IsCore(m, 6) \/ IsFlow(m, 1) THEN {m.reg[SP]}
    ELSE {}

Reported(addr) ==
    \E k \in (Len(Before.out) + 1)..Len(output) :
        /\ output[k].kind \in {"read_out_of_bounds", "write_out_of_bounds"}
        /\ output[k].val = addr

C14_StackPointerChecked ==
    (/\ cycles >= 1
     /\ \E addr \in StackAccesses(Before) : addr \notin 0..(RamSize - 1))
    => /\ \A addr \in StackAccesses(Before) : Reported(addr)
       /\ ram = Before.ram

(***************************************************************************)
(* C15.  A cycle whose opcode has the sets-PC bit clear leaves             *)
(* PC = PC before + 1 + operand_count (opcode bits 7-6), for a known core  *)
(* or ALU instruction and for an unknown one; after a cycle whose opcode   *)
(* has the sets-PC bit set, PC is what the flow unit left: the loop adds   *)
(* nothing.  A flow unit that raises on its register operand has not yet   *)
(* assigned PC.                                                            *)
(***************************************************************************)
FlowUnitPC(m) ==
    LET c == command(OpcodeAt(m))
        t == operand_a(m)
        taken == c = 0 \/ c = 4 \/ (c = 5 /\ m.fl.E # 0) \/ (c = 6 /\ m.fl.E = 0)
    IN  CASE c = 1 -> ram_read(m, m.reg[SP])
          [] taken /\ ~RegOK(t) -> m.pc
          [] taken /\ RegOK(t) ->
                IF R(t) = SP THEN m.reg[SP] - 1 ELSE m.reg[R(t)]
          [] c = 5 \/ c = 6 -> m.pc + 1 + operand_count(OpcodeAt(m))
          [] OTHER -> m.pc

C15_PcAdvance ==
    cycles >= 1
    => /\ sets_pc(OpcodeAt(Before)) = 0 =>
             /\ OpcodeAt(Before) \in 0..255
             /\ pc = Before.pc + 1 + (OpcodeAt(Before) \div 64)
       /\ sets_pc(OpcodeAt(Before)) # 0 => pc = FlowUnitPC(Before)

(***************************************************************************)
(* C16.  A cycle whose opcode has the sets-PC and ALU bits clear and a     *)
(* selector that the core table does not hold (not HLT 001, LDI 010,       *)
(* PUSH 101, POP 110, PRN 111) is not fatal: registers, memory, flags and  *)
(* Running are unchanged, PC advances by 1 + operand_count, and the loop   *)
(* goes on.                                                                *)
(***************************************************************************)
UnknownCore(m) ==
    sets_pc(OpcodeAt(m)) = 0 /\ is_alu(OpcodeAt(m)) = 0
    /\ command(OpcodeAt(m)) \notin {1, 2, 5, 6, 7}

C16_UnknownOpcodeContinues ==
    (cycles >= 1 /\ UnknownCore(Before))
    => /\ reg = Before.reg
       /\ ram = Before.ram
       /\ fl = Before.fl
       /\ running
       /\ status = "running"
       /\ pc = Before.pc + 1 + operand_count(OpcodeAt(Before))

C16_UnknownRan ==
    /\ cycles >= 2
    /\ UnknownCore(Before2)
    /\ Before.pc = Before2.pc + 1 + operand_count(OpcodeAt(Before2))
    /\ status = "running"

(***************************************************************************)
(* C17.  The flags are all zero at startup; in every reachable state at    *)
(* most one of L, G, E is 1; every cycle that is not a CMP leaves L, G     *)
(* and E unchanged.                                                        *)
(***************************************************************************)
C17_FlagsOnlyByCmp ==
    /\ status \in {"constructed", "loaded"} => fl = [L |-> 0, G |-> 0, E |-> 0]
    /\ fl.L \in {0, 1} /\ fl.G \in {0, 1} /\ fl.E \in {0, 1}
    /\ fl.L + fl.G + fl.E <= 1
    /\ (cycles >= 1 /\ ~IsAlu(Before, 7)) => fl = Before.fl

C17_FlagsKept ==
    /\ cycles >= 2
    /\ IsAlu(Before2, 7)
    /\ IsCore(Before, 2)
    /\ Before.fl = [L |-> 0, G |-> 0, E |-> 1]
    /\ fl = Before.fl

C19_PopKeepsMemory ==
    (/\ cycles >= 1
     /\ Completed
     /\ IsCore(Before, 6)
     /\ operand_a(Before) \in Regs)
    => /\ ram = Before.ram
       /\ \A i \in Regs \ {operand_a(Before), SP} : reg[i] = Before.reg[i]
       /\ Before.reg[SP] \in 0..(RamSize - 1) =>
             LET v == Before.ram[Before.reg[SP]]
                 r == operand_a(Before)
             IN  /\ reg = [[Before.reg EXCEPT ![r] = v] EXCEPT ![SP] = @ + 1]
                 /\ ram[Before.reg[SP]] = v
       /\ operand_a(Before) # SP => reg[SP] = Before.reg[SP] + 1

C19_Popped ==
    /\ cycles >= 1
    /\ Completed
    /\ IsCore(Before, 6)
    /\ operand_a(Before) \in Regs \ {SP}
    /\ Before.reg[SP] \in 0..(RamSize - 1)
    /\ Before.ram[Before.reg[SP]] # 0
    /\ reg[operand_a(Before)] = Before.ram[Before.reg[SP]]
    /\ ram[Before.reg[SP]] = Before.ram[Before.reg[SP]]

(***************************************************************************)
(* C20.  When the value fetched at PC has the sets-PC bit set and a        *)
(* selector outside CALL 000, RET 001, JMP 100, JEQ 101, JNE 110 (as the   *)
(* -1 that ram_read returns for PC >= 256 has), the cycle changes neither  *)
(* PC nor any register, memory cell or flag, and Running stays true: the   *)
(* machine is in the same situation again, and never halts.                *)
(***************************************************************************)
Stuck(m) ==
    sets_pc(OpcodeAt(m)) # 0 /\ command(OpcodeAt(m)) \notin {0, 1, 4, 5, 6}

C20_Livelock ==
    [][ (status = "running" /\ Stuck(Machine))
        => /\ pc' = pc
           /\ reg' = reg
           /\ ram' = ram
           /\ fl' = fl
           /\ running'
           /\ status' = "running"
           /\ Stuck(Machine)'
      ]_vars

C20_StuckOffTheEnd ==
    /\ cycles >= 2
    /\ status = "running"
    /\ Before2.pc >= RamSize
    /\ Stuck(Before2)
    /\ Stuck(Before)
    /\ Stuck(Machine)
    /\ pc = Before2.pc
====
